---- MODULE Spec2Model ----
(***************************************************************************)
(* Model of the temphums_go command-line utilities:                        *)
(*   TransferRecs     (src/unnamed/part_000, package transfer_recs)        *)
(*   TransferRecords  (src/unnamed/part_000, package main)                 *)
(*   AggCSV           (src/main.go)                                        *)
(*   AggPrint         (src/unnamed/part_001)                               *)
(* Each utility is one linear run: load configuration, connect, query,     *)
(* write, exit.  pc is the position of the run in its source text.         *)
(***************************************************************************)
EXTENDS Integers, Sequences, FiniteSets, TLC

VARIABLES
    prog,         \* which utility is running
    pc,           \* position of the run in the source text
    status,       \* "running", "ok" (main returned), "fatal" (log.Fatal: os.Exit(1))
    log,          \* messages written through the log package, in order
    preEnv,       \* the process environment as it was when the run started
    environ,      \* the process environment (os.Setenv / os.Getenv)
    dotenv,       \* the file .env
    dotenvLocal,  \* the file .env.local
    expired,      \* the deadline of ctx (10 s after its creation) has passed
    clients,      \* per mongo.Client: "none", "open", "disconnected"
    source,       \* documents of the collection that is read, in storage order
    dest,         \* destination collection: _id -> document (transfers)
    cursor,       \* the mongo.Cursor of the run
    records,      \* the slice built by the read loop of a transfer
    writes,       \* the write calls issued to the destination, in order
    run,          \* ordinal of the run (the utilities are re-run by hand or cron)
    destPrev,     \* destination as the previous run left it
    faults,       \* failures the environment has injected into this run: <<kind, index>>
    prevClean,    \* the previous run returned normally with no injected failure
    now,          \* time.Now() of an aggregation run, in half hours since Epoch
    zone,         \* time.Local of the process
    file,         \* the CSV file: <<>> before os.Create, else its rows
    csvBuf,       \* rows buffered in the csv.Writer, not yet flushed
    stdout        \* lines printed with fmt.Printf

vars == <<prog, pc, status, log, preEnv, environ, dotenv, dotenvLocal, expired,
          clients, source, dest, cursor, records, writes, run, destPrev, faults,
          prevClean, now, zone, file, csvBuf, stdout>>

confVars == <<preEnv, environ, dotenv, dotenvLocal>>
dbVars   == <<source, dest, cursor, records, writes, destPrev>>
aggVars  == <<now, zone, file, csvBuf, stdout>>
runVars  == <<run, prevClean>>

(***************************************************************************)
(* Utilities and the environment variables each one reads.                 *)
(***************************************************************************)
TransferProgs == {"TransferRecs", "TransferRecords"}
AggProgs      == {"AggCSV", "AggPrint"}
Progs         == TransferProgs \cup AggProgs

Keys == {"MONGO_URI", "SOURCE_MONGO_URI", "DEST_MONGO_URI"}

\* The variables a utility reads with os.Getenv, in the order it reads them.
RequiredKeys(p) ==
    IF p \in TransferProgs THEN <<"SOURCE_MONGO_URI", "DEST_MONGO_URI">>
    ELSE <<"MONGO_URI">>

\* The message of the log.Fatal that follows an empty os.Getenv(k).
NotSetMsg(k) == <<k, "not set in environment">>

(***************************************************************************)
(* Configuration overlay (github.com/joho/godotenv and package os).        *)
(* An environment is a function from the names that are set to values; a   *)
(* file is [exists, vars].                                                 *)
(***************************************************************************)
Merge(f, g) ==
    [k \in DOMAIN f \cup DOMAIN g |-> IF k \in DOMAIN g THEN g[k] ELSE f[k]]

\* godotenv.Load: a variable of the file is set only when the process
\* environment does not hold the name yet (an empty value counts as held).
Load(env, f) == Merge(f.vars, env)

\* Faulty variant: .env.local read with Load, so it replaces nothing.
OverloadKeepsEnvironment(env, f) == Merge(f.vars, env)
\* godotenv.Overload: every variable of the file is set, replacing what the
\* process environment holds.
Overload(env, f) == Merge(env, f.vars)

\* os.Getenv: the value, or "" when the name is not set.
Getenv(env, k) == IF k \in DOMAIN env THEN env[k] ELSE ""

\* The first required variable whose os.Getenv is empty, or 0 when none is.
RECURSIVE FirstEmpty(_, _, _)
FirstEmpty(env, ks, i) ==
    IF i > Len(ks) THEN 0
    ELSE IF Getenv(env, ks[i]) = "" THEN i
    ELSE FirstEmpty(env, ks, i + 1)

(***************************************************************************)
(* log.Fatal / log.Fatalf: print, then os.Exit(1).  Deferred calls do not  *)
(* run.                                                                    *)
(***************************************************************************)
Fatal(msg) ==
    /\ log' = Append(log, msg)
    /\ status' = "fatal"
    /\ pc' = "exited"

Goto(l) ==
    /\ pc' = l
    /\ UNCHANGED <<status, log>>

\* err := godotenv.Load(".env"); if err != nil { log.Fatalf(...) }
LoadDotenv ==
    /\ pc = "load"
    /\ IF ~dotenv.exists
       THEN /\ Fatal(<<"Error loading .env file">>)
            /\ UNCHANGED environ
       ELSE /\ environ' = Load(environ, dotenv)
            /\ Goto("overload")
    /\ UNCHANGED <<prog, preEnv, dotenv, dotenvLocal, expired, clients, faults>>
    /\ UNCHANGED <<dbVars, aggVars, runVars>>

\* err = godotenv.Overload(".env.local"); if err != nil { log.Fatalf(...) }
OverloadDotenvLocal ==
    /\ pc = "overload"
    /\ IF ~dotenvLocal.exists
       THEN /\ Fatal(<<"Error loading .env.local file">>)
            /\ UNCHANGED environ
       ELSE /\ environ' = Overload(environ, dotenvLocal)
            /\ Goto("getenv")
    /\ UNCHANGED <<prog, preEnv, dotenv, dotenvLocal, expired, clients, faults>>
    /\ UNCHANGED <<dbVars, aggVars, runVars>>

\* The os.Getenv reads and their "not set" checks, then
\* ctx, cancel := context.WithTimeout(context.Background(), 10*time.Second).
GetenvURIs ==
    /\ pc = "getenv"
    /\ LET i == FirstEmpty(environ, RequiredKeys(prog), 1) IN
       IF i # 0
       THEN Fatal(NotSetMsg(RequiredKeys(prog)[i]))
       ELSE Goto("connect")
    /\ UNCHANGED <<prog, expired, clients, faults>>
    /\ UNCHANGED <<confVars, dbVars, aggVars, runVars>>

(***************************************************************************)
(* Connections.  ctx carries the 10 s deadline and is the context handed   *)
(* to every later driver call of the run.                                  *)
(***************************************************************************)
DeadlineExceeded == <<"context deadline exceeded">>

\* The clients a utility connects, in the order it connects them.
ClientsOf(p) == IF p \in TransferProgs THEN <<"source", "dest">> ELSE <<"client">>

NoClients == [c \in {"source", "dest", "client"} |-> "none"]

\* The first client of the utility that is not connected yet, or 0.
RECURSIVE FirstUnconnected(_, _, _)
FirstUnconnected(cl, cs, i) ==
    IF i > Len(cs) THEN 0
    ELSE IF cl[cs[i]] = "none" THEN i
    ELSE FirstUnconnected(cl, cs, i + 1)

\* The deadline of ctx passes.  Nothing in the program observes it until the
\* next driver call that waits on ctx (a query, a getMore or a write).
Timeout ==
    /\ pc \notin {"load", "overload", "getenv", "exited"}
    /\ ~expired
    /\ expired' = TRUE
    /\ faults' = faults \cup {<<"deadline", 0>>}
    /\ UNCHANGED <<prog, pc, status, log, clients>>
    /\ UNCHANGED <<confVars, dbVars, aggVars, runVars>>

\* client, err := mongo.Connect(ctx, opts); if err != nil { log.Fatal(err) }
\* followed by the registration of the deferred Disconnect.
\* Connect validates the options and starts the background monitors; it does
\* not wait for a server and does not look at the deadline of ctx, so an
\* expired ctx is first noticed by the query that follows.
Connect ==
    /\ pc = "connect"
    /\ LET cs == ClientsOf(prog)
           i  == FirstUnconnected(clients, cs, 1) IN
       \/ /\ Fatal(<<"connect error">>)
          /\ faults' = faults \cup {<<"connect", 0>>}
          /\ UNCHANGED clients
       \/ /\ clients' = [clients EXCEPT ![cs[i]] = "open"]
          /\ Goto(IF i = Len(cs) THEN "query" ELSE "connect")
          /\ UNCHANGED faults
    /\ UNCHANGED <<prog, expired>>
    /\ UNCHANGED <<confVars, dbVars, aggVars, runVars>>

(***************************************************************************)
(* Range Transfer: the date range and the query.                           *)
(* Timestamps are seconds since 1970-01-01T00:00:00Z.                      *)
(***************************************************************************)
StartRecs    == 1672531200    \* time.Date(2023, 1, 1, 0, 0, 0, 0, time.UTC)
EndRecs      == 1704067200    \* time.Date(2024, 1, 1, 0, 0, 0, 0, time.UTC)
StartRecords == 1588291200    \* time.Date(2020, 5, 1, 0, 0, 0, 0, time.UTC)
EndRecords   == 1598918400    \* time.Date(2020, 9, 1, 0, 0, 0, 0, time.UTC)

startDate(p) == IF p = "TransferRecs" THEN StartRecs ELSE StartRecords
endDate(p)   == IF p = "TransferRecs" THEN EndRecs ELSE EndRecords

\* Faulty variant: both ends of the range inclusive.
filterClosedRange(t, lo, hi) == lo <= t /\ t <= hi
\* filter := {"updatedAt": {"$gte": startDate, "$lt": endDate}}
filter(t, lo, hi) == lo <= t /\ t < hi

RECURSIVE SelectDocs(_, _, _)
SelectDocs(docs, lo, hi) ==
    IF docs = <<>> THEN <<>>
    ELSE LET d == Head(docs) IN
         (IF filter(d.updatedAt, lo, hi) THEN <<d>> ELSE <<>>)
             \o SelectDocs(Tail(docs), lo, hi)

Min(a, b) == IF a <= b THEN a ELSE b

Range(s) == {s[i] : i \in 1..Len(s)}

NoCursor == [docs |-> <<>>, have |-> 0, pos |-> 0, err |-> FALSE]

\* A cursor over rows: the first batch arrives with the reply to the query.
OpenCursor(rows, batch) ==
    [docs |-> rows, have |-> Min(batch, Len(rows)), pos |-> 0, err |-> FALSE]

(***************************************************************************)
(* Range Transfer: query, read loop, write.                                *)
(***************************************************************************)
BatchSize == 1     \* documents the server returns per batch
MaxDocs   == 2     \* _id values 1..MaxDocs
MaxRuns   == 2     \* runs of a utility in one behaviour

SuccessMsg(p, n) ==
    <<"Successfully transferred", n,
      IF p = "TransferRecs" THEN "records from 2023" ELSE "records from 2024">>

NoRecordsMsg(p) ==
    IF p = "TransferRecs" THEN <<"No records found for the year 2023">>
    ELSE <<"No records found for the year 2021">>

\* mongo.NewUpdateOneModel().SetFilter({"_id": record["_id"]})
\*     .SetUpdate({"$set": record}).SetUpsert(true)
NewUpdateOneModel(record) ==
    [filterId |-> record._id, set |-> record, upsert |-> TRUE]

\* Faulty variant: no utility upserts, both insert.
UpsertsNever(p) == FALSE
\* The write strategy: TransferRecords builds upsert models for BulkWrite,
\* TransferRecs hands the documents to InsertMany.
Upserts(p) == p = "TransferRecords"

\* What the read loop appends for a decoded record.
Prepared(p, record) ==
    IF Upserts(p) THEN NewUpdateOneModel(record) ELSE record

\* The document a prepared element carries.
RecordOf(p, r) == IF Upserts(p) THEN r.set ELSE r

\* cursor, err := sourceColl.Find(ctx, filter); if err != nil { log.Fatal(err) }
Find ==
    /\ pc = "query"
    /\ prog \in TransferProgs
    /\ \/ /\ expired
          /\ Fatal(DeadlineExceeded)
          /\ UNCHANGED <<cursor, faults>>
       \/ /\ ~expired
          /\ Fatal(<<"find error">>)
          /\ faults' = faults \cup {<<"find", 0>>}
          /\ UNCHANGED cursor
       \/ /\ ~expired
          /\ cursor' = OpenCursor(SelectDocs(source, startDate(prog), endDate(prog)),
                                  BatchSize)
          /\ Goto("next")
          /\ UNCHANGED faults
    /\ UNCHANGED <<prog, expired, clients, source, dest, records, writes, destPrev>>
    /\ UNCHANGED <<confVars, aggVars, runVars>>

\* One evaluation of `for cursor.Next(ctx) { Decode; append }`.
\* cursor.Next hands out a buffered document without looking at ctx; with the
\* buffer empty it asks the server for the next batch (getMore), which fails
\* when ctx has expired or the connection breaks.  A failed Next returns false
\* and keeps the error in the cursor; the transfer utilities never read
\* cursor.Err().
ReadLoop ==
    /\ pc = "next"
    /\ prog \in TransferProgs
    /\ LET n    == Len(cursor.docs)
           doc  == cursor.docs[cursor.pos + 1]
           take == /\ records' = Append(records, Prepared(prog, doc))
                   /\ Goto("next")
       IN
       \/ /\ cursor.pos < cursor.have
          /\ cursor' = [cursor EXCEPT !.pos = @ + 1]
          /\ take
          /\ UNCHANGED faults
       \/ /\ cursor.pos < cursor.have
          /\ Fatal(<<"decode error">>)
          /\ faults' = faults \cup {<<"decode", 0>>}
          /\ UNCHANGED <<cursor, records>>
       \/ /\ cursor.pos = cursor.have /\ cursor.have < n
          /\ ~expired
          /\ cursor' = [cursor EXCEPT !.have = Min(@ + BatchSize, n)]
          /\ Fatal(<<"decode error">>)
          /\ faults' = faults \cup {<<"decode", 0>>}
          /\ UNCHANGED records
       \/ /\ cursor.pos = cursor.have /\ cursor.have < n
          /\ ~expired
          /\ cursor' = [cursor EXCEPT !.have = Min(@ + BatchSize, n), !.pos = @ + 1]
          /\ take
          /\ UNCHANGED faults
       \/ /\ cursor.pos = cursor.have /\ cursor.have < n
          /\ cursor' = [cursor EXCEPT !.err = TRUE]
          /\ faults' = IF expired THEN faults ELSE faults \cup {<<"getMore", 0>>}
          /\ Goto("write")
          /\ UNCHANGED records
       \/ /\ cursor.pos = n
          /\ Goto("write")
          /\ UNCHANGED <<cursor, records, faults>>
    /\ UNCHANGED <<prog, expired, clients, source, dest, writes, destPrev>>
    /\ UNCHANGED <<confVars, aggVars, runVars>>

\* Ordered insert: documents go in one by one and the first duplicate _id
\* stops the batch.
RECURSIVE InsertOrdered(_, _)
InsertOrdered(coll, docs) ==
    IF docs = <<>> THEN [coll |-> coll, ok |-> TRUE]
    ELSE LET d == Head(docs) IN
         IF d._id \in DOMAIN coll THEN [coll |-> coll, ok |-> FALSE]
         ELSE InsertOrdered(Merge(coll, [i \in {d._id} |-> d]), Tail(docs))

\* UpdateOne with upsert: $set on the document whose _id matches, else insert.
UpdateOne(coll, m) ==
    IF m.filterId \in DOMAIN coll
    THEN [coll EXCEPT ![m.filterId] = Merge(@, m.set)]
    ELSE Merge(coll, [i \in {m.filterId} |-> m.set])

\* Faulty variant: ordered execution, nothing is applied after a failure.
RECURSIVE ApplyOrdered(_, _, _, _)
ApplyOrdered(coll, models, failed, i) ==
    IF i > Len(models) \/ i \in failed THEN coll
    ELSE ApplyOrdered(UpdateOne(coll, models[i]), models, failed, i + 1)

\* Unordered bulk write: every model outside `failed` is applied.
RECURSIVE ApplyUnordered(_, _, _, _)
ApplyUnordered(coll, models, failed, i) ==
    IF i > Len(models) THEN coll
    ELSE ApplyUnordered(IF i \in failed THEN coll ELSE UpdateOne(coll, models[i]),
                        models, failed, i + 1)

\* Faulty variant: the write is issued whatever the length.
HasRecordsAlways(rs) == Len(rs) >= 0
\* if len(records) > 0
HasRecords(rs) == Len(rs) > 0

\* if len(records) > 0 { InsertMany / BulkWrite; log.Printf(success) }
\* else { log.Println(no records) }
Write ==
    /\ pc = "write"
    /\ prog \in TransferProgs
    /\ IF ~HasRecords(records)
       THEN /\ log' = Append(log, NoRecordsMsg(prog))
            /\ pc' = "defers"
            /\ UNCHANGED <<status, dest, writes, faults>>
       ELSE /\ writes' = Append(writes, records)
            /\ \/ /\ expired
                  /\ Fatal(DeadlineExceeded)
                  /\ UNCHANGED <<dest, faults>>
               \/ /\ ~expired
                  /\ Fatal(<<"write error">>)
                  /\ faults' = faults \cup {<<"write", 0>>}
                  /\ UNCHANGED dest
               \/ /\ ~expired
                  /\ ~Upserts(prog)
                  /\ LET r == InsertOrdered(dest, records) IN
                     /\ dest' = r.coll
                     /\ IF r.ok
                        THEN /\ log' = Append(log, SuccessMsg(prog, Len(records)))
                             /\ pc' = "defers"
                             /\ UNCHANGED status
                        ELSE Fatal(<<"bulk write exception">>)
                  /\ UNCHANGED faults
               \/ /\ ~expired
                  /\ Upserts(prog)
                  /\ \E failed \in SUBSET (1..Len(records)) :
                        /\ dest' = ApplyUnordered(dest, records, failed, 1)
                        /\ IF failed = {}
                           THEN /\ log' = Append(log, SuccessMsg(prog, Len(records)))
                                /\ pc' = "defers"
                                /\ UNCHANGED <<status, faults>>
                           ELSE /\ Fatal(<<"bulk write exception">>)
                                /\ faults' = faults \cup {<<"upsert", i>> : i \in failed}
    /\ UNCHANGED <<prog, expired, clients, source, cursor, records, destPrev>>
    /\ UNCHANGED <<confVars, aggVars, runVars>>

(***************************************************************************)
(* Return from the function: the deferred calls, last registered first.    *)
(***************************************************************************)
\* The last client of the utility that is still open, or 0.
RECURSIVE LastOpen(_, _, _)
LastOpen(cl, cs, i) ==
    IF i = 0 THEN 0
    ELSE IF cl[cs[i]] = "open" THEN i
    ELSE LastOpen(cl, cs, i - 1)

\* defer func() { if err := client.Disconnect(ctx); err != nil { log.Fatal(err) } }()
\* (cursor.Close and cancel, deferred around it, change nothing modelled).
DeferredDisconnect ==
    /\ pc = "defers"
    /\ LET cs == ClientsOf(prog)
           i  == LastOpen(clients, cs, Len(cs)) IN
       /\ i # 0
       /\ clients' = [clients EXCEPT ![cs[i]] = "disconnected"]
       /\ \/ /\ Fatal(<<"disconnect error">>)
             /\ faults' = faults \cup {<<"disconnect", 0>>}
          \/ /\ pc' = IF i = 1 THEN "exited" ELSE "defers"
             /\ status' = IF i = 1 THEN "ok" ELSE status
             /\ UNCHANGED <<log, faults>>
    /\ UNCHANGED <<prog, expired>>
    /\ UNCHANGED <<confVars, dbVars, aggVars, runVars>>

\* The utility is started again on the same source collection.
Rerun ==
    /\ pc = "exited"
    /\ run < MaxRuns
    /\ run' = run + 1
    /\ prevClean' = (status = "ok" /\ faults = {})
    /\ destPrev' = dest
    /\ pc' = "load"
    /\ status' = "running"
    /\ log' = <<>>
    /\ environ' = preEnv
    /\ expired' = FALSE
    /\ clients' = NoClients
    /\ cursor' = NoCursor
    /\ records' = <<>>
    /\ writes' = <<>>
    /\ faults' = {}
    /\ UNCHANGED <<prog, preEnv, dotenv, dotenvLocal, source, dest>>
    /\ UNCHANGED aggVars

(***************************************************************************)
(* Initial states.                                                         *)
(***************************************************************************)
NoVars == [k \in {} |-> ""]

MissingFile == [exists |-> FALSE, vars |-> NoVars]

\* A file that sets the names in S to v.
EnvFile(S, v) == [exists |-> TRUE, vars |-> [k \in S |-> v]]

\* The files a run may find: absent, or setting any subset of the names.
Files(v) == {MissingFile} \cup {EnvFile(S, v) : S \in SUBSET Keys}

\* What the process environment may hold at start: each name unset, empty or set.
Environments ==
    UNION {[S -> {"", "mongodb://env"}] : S \in SUBSET Keys}

\* State of a run before its first statement, common to all utilities.
InitRun ==
    /\ pc = "load"
    /\ status = "running"
    /\ log = <<>>
    /\ expired = FALSE
    /\ clients = NoClients
    /\ cursor = NoCursor
    /\ records = <<>>
    /\ writes = <<>>
    /\ run = 1
    /\ faults = {}
    /\ prevClean = FALSE
    /\ file = <<>>
    /\ csvBuf = <<>>
    /\ stdout = <<>>

\* updatedAt values around the two ends of the range of utility p.
TransferTimes(p) == {startDate(p) - 1, startDate(p), endDate(p) - 1, endDate(p)}

SourceDoc(i, t) == [_id |-> i, updatedAt |-> t, val |-> "source"]

\* A document the destination already holds, with a field the source lacks.
OldDoc(p, i) == [_id |-> i, updatedAt |-> startDate(p), val |-> "old", note |-> "kept"]

\* The documents chosen by pick (0: no document with that _id), by ascending _id.
RECURSIVE DocsFrom(_, _)
DocsFrom(pick, i) ==
    IF i > MaxDocs THEN <<>>
    ELSE (IF pick[i] = 0 THEN <<>> ELSE <<SourceDoc(i, pick[i])>>)
             \o DocsFrom(pick, i + 1)

\* Configurations of a transfer run: complete, one URI missing, a file missing.
TransferConfigs ==
    { <<EnvFile(Keys, "mongodb://base"), EnvFile({}, "")>>,
      <<EnvFile({"SOURCE_MONGO_URI"}, "mongodb://base"), EnvFile({}, "")>>,
      <<EnvFile(Keys, "mongodb://base"), MissingFile>>,
      <<MissingFile, EnvFile(Keys, "mongodb://local")>> }

InitTransfer ==
    /\ InitRun
    /\ prog \in TransferProgs
    /\ preEnv = NoVars
    /\ environ = preEnv
    /\ \E c \in TransferConfigs : dotenv = c[1] /\ dotenvLocal = c[2]
    /\ \E pick \in [1..MaxDocs -> TransferTimes(prog) \cup {0}] :
           source = DocsFrom(pick, 1)
    /\ \E S \in SUBSET (1..MaxDocs) : dest = [i \in S |-> OldDoc(prog, i)]
    /\ destPrev = dest
    /\ now = 0
    /\ zone = "UTC"

NextTransfer ==
    \/ LoadDotenv
    \/ OverloadDotenvLocal
    \/ GetenvURIs
    \/ Timeout
    \/ Connect
    \/ Find
    \/ ReadLoop
    \/ Write
    \/ DeferredDisconnect
    \/ Rerun

SpecTransfer == InitTransfer /\ [][NextTransfer]_vars

(***************************************************************************)
(* Properties of the transfer utilities (checked under SpecTransfer).      *)
(***************************************************************************)
\* The source documents inside the half-open range of the running utility.
InRangeDocs ==
    {d \in Range(source) :
        startDate(prog) <= d.updatedAt /\ d.updatedAt < endDate(prog)}

\* The documents a write call was handed.
Handed(w) == {RecordOf(prog, r) : r \in Range(w)}

Logged(kind) == \E i \in 1..Len(log) : log[i][1] = kind

AllConnected == \A i \in 1..Len(ClientsOf(prog)) : clients[ClientsOf(prog)[i]] # "none"

\* C1: the query of a transfer selects exactly the source documents with
\* start <= updatedAt < end; no write call is ever handed a document outside
\* the range, and a write call that follows a complete read of the cursor is
\* handed exactly the documents of the range.
C1_RangeSelection ==
    /\ pc \in {"next", "write", "defers"} => Range(cursor.docs) = InRangeDocs
    /\ \A i \in 1..Len(writes) :
          /\ Handed(writes[i]) \subseteq InRangeDocs
          /\ ~cursor.err => Handed(writes[i]) = InRangeDocs

\* A write was issued for a source holding one document at start (handed over)
\* and one at end (left out).
C1_Witness ==
    /\ writes # <<>>
    /\ ~cursor.err
    /\ \E d \in Range(source) :
          d.updatedAt = startDate(prog) /\ d \in Handed(writes[1])
    /\ \E d \in Range(source) :
          d.updatedAt = endDate(prog) /\ d \notin Handed(writes[1])

\* C2: when no source document is inside the range, the run issues no write
\* call, leaves the destination as it found it, never logs a success count,
\* and a run that reaches the end of the function has logged the "No records
\* found" line.
C2_NoMatchNoWrite ==
    InRangeDocs = {} =>
        /\ writes = <<>>
        /\ dest = destPrev
        /\ ~Logged("Successfully transferred")
        /\ (pc = "defers" \/ status = "ok") => log = <<NoRecordsMsg(prog)>>

\* A run over a non-empty source with nothing in range returned normally.
C2_Witness ==
    /\ source # <<>>
    /\ InRangeDocs = {}
    /\ status = "ok"
    /\ dest # NoVars

\* C3: after a run of TransferRecords that completed without any failure, a
\* second run on the same source never changes the destination, and it ends
\* in a fatal error only if a failure is injected into it.
C3_UpsertIdempotent ==
    (prog = "TransferRecords" /\ run > 1 /\ prevClean) =>
        /\ dest = destPrev
        /\ (pc = "exited" /\ faults = {}) => status = "ok"

\* The second run returned normally after writing again, over a destination
\* that holds a merged document and an inserted one.
C3_Witness ==
    /\ prog = "TransferRecords" /\ run = 2 /\ prevClean
    /\ status = "ok"
    /\ writes # <<>>
    /\ \E i \in DOMAIN dest : "note" \in DOMAIN dest[i] /\ dest[i].val = "source"
    /\ \E i \in DOMAIN dest : "note" \notin DOMAIN dest[i]

\* C4 (as claimed): a transfer whose read of the cursor failed partway never
\* writes to the destination and never logs a success count.
C4_FailedReadIsFatal ==
    (prog \in TransferProgs /\ cursor.err) =>
        /\ dest = destPrev
        /\ ~Logged("Successfully transferred")

\* C5 (as claimed): when the process has exited after connecting its clients,
\* Disconnect has been called on every one of them.
C5_DisconnectOnEveryExit ==
    (pc = "exited" /\ AllConnected) =>
        \A c \in DOMAIN clients : clients[c] # "open"

\* C7 (as claimed): once every connection is established, no call of the run
\* fails because the deadline of ctx has passed.
C7_DeadlineOnlyForConnect ==
    AllConnected =>
        /\ DeadlineExceeded \notin Range(log)
        /\ (cursor.err => \E f \in faults : f[1] = "getMore")

\* The indices of the prepared upserts whose execution failed.
FailedUpserts == {f[2] : f \in {g \in faults : g[1] = "upsert"}}

\* C9 (as claimed): a failed upsert of the bulk write is swallowed and the
\* run logs the success count.
C9_FailureSwallowed ==
    (prog = "TransferRecords" /\ FailedUpserts # {}) =>
        /\ status # "fatal"
        /\ SuccessMsg(prog, Len(records)) \in Range(log)

\* C9 (amended): when an upsert of the unordered bulk write fails, every other
\* upsert of the batch is applied and the failed ones leave their documents
\* untouched, but BulkWrite returns the failure: the run ends in a fatal error
\* and logs no success count.
C9_FailureIsFatalOthersApplied ==
    (prog = "TransferRecords" /\ FailedUpserts # {}) =>
        /\ status = "fatal"
        /\ log[Len(log)] = <<"bulk write exception">>
        /\ ~Logged("Successfully transferred")
        /\ \A i \in 1..Len(records) :
              LET id == records[i].filterId IN
              IF i \in FailedUpserts
              THEN (id \in DOMAIN dest) = (id \in DOMAIN destPrev)
                   /\ (id \in DOMAIN dest => dest[id] = destPrev[id])
              ELSE /\ id \in DOMAIN dest
                   /\ \A fld \in DOMAIN records[i].set :
                         dest[id][fld] = records[i].set[fld]

\* The first of two upserts failed and the second was applied.
C9_Witness ==
    /\ prog = "TransferRecords"
    /\ FailedUpserts = {1}
    /\ Len(records) = 2
    /\ records[2].filterId \in DOMAIN dest
    /\ dest[records[2].filterId].val = "source"

(***************************************************************************)
(* Configuration loading on its own, over every combination of process     *)
(* environment, .env and .env.local.                                       *)
(***************************************************************************)
InitConfig ==
    /\ InitRun
    /\ prog \in Progs
    /\ preEnv \in Environments
    /\ environ = preEnv
    /\ dotenv \in Files("mongodb://base")
    /\ dotenvLocal \in Files("mongodb://local")
    /\ source = <<>>
    /\ dest = NoVars
    /\ destPrev = dest
    /\ now = 0
    /\ zone = "UTC"

NextConfig ==
    \/ LoadDotenv
    \/ OverloadDotenvLocal
    \/ GetenvURIs

SpecConfig == InitConfig /\ [][NextConfig]_vars

\* Both files have been loaded.
LoadedBoth == dotenv.exists /\ dotenvLocal.exists /\ pc \notin {"load", "overload"}

\* C6 (as claimed): a non-empty value the process environment held before
\* loading is the value read, whatever .env.local defines; otherwise the value
\* of .env.local is read, if it defines the variable, else the value of .env.
C6_EnvironmentWins ==
    LoadedBoth =>
        \A k \in Keys :
            \/ k \in DOMAIN preEnv /\ preEnv[k] = ""
            \/ Getenv(environ, k) =
                   IF k \in DOMAIN preEnv THEN preEnv[k]
                   ELSE IF k \in DOMAIN dotenvLocal.vars THEN dotenvLocal.vars[k]
                   ELSE IF k \in DOMAIN dotenv.vars THEN dotenv.vars[k]
                   ELSE ""

\* C6 (amended): the value read for a variable is the one .env.local gives it,
\* if it defines the variable, else the one the process environment held
\* before loading, if it held one, else the one .env gives it; a value of
\* .env.local replaces a value the process environment already held.  A run
\* goes on to connect only when every variable it reads is non-empty.
C6_OverrideFileWins ==
    /\ LoadedBoth =>
          \A k \in Keys :
              Getenv(environ, k) =
                  IF k \in DOMAIN dotenvLocal.vars THEN dotenvLocal.vars[k]
                  ELSE IF k \in DOMAIN preEnv THEN preEnv[k]
                  ELSE IF k \in DOMAIN dotenv.vars THEN dotenv.vars[k]
                  ELSE ""
    /\ pc = "connect" =>
          \A i \in 1..Len(RequiredKeys(prog)) :
              Getenv(environ, RequiredKeys(prog)[i]) # ""

\* MONGO_URI was set in the process environment and in both files, and the
\* run goes on with the value of .env.local.
C6_Witness ==
    /\ pc = "connect"
    /\ prog = "AggCSV"
    /\ "MONGO_URI" \in DOMAIN preEnv /\ preEnv["MONGO_URI"] = "mongodb://env"
    /\ "MONGO_URI" \in DOMAIN dotenv.vars
    /\ "MONGO_URI" \in DOMAIN dotenvLocal.vars
    /\ Getenv(environ, "MONGO_URI") = "mongodb://local"

(***************************************************************************)
(* Hourly aggregation (src/main.go, src/unnamed/part_001).                 *)
(* Instants are half hours since 2023-06-01T00:00:00Z and stay inside June *)
(* 2023, where every zone below keeps one offset (Chicago is on CDT).      *)
(* Readings are given in thousandths and stored as float64; rounded values *)
(* and printed averages are hundredths; the averages are float64.          *)
(***************************************************************************)
MaxAggDocs == 2    \* documents in the aggregated collection

Zones == {"UTC", "America/Chicago", "Asia/Kolkata"}

\* Offset of a zone from UTC in half hours.
Offset(z) ==
    CASE z = "UTC" -> 0
      [] z = "America/Chicago" -> -10
      [] z = "Asia/Kolkata" -> 11

\* The calendar date of instant t in zone z, as <<year, month, day>>.
DateIn(t, z) == <<2023, 6, 1 + ((t + Offset(z)) \div 48)>>

\* time.Date(y, m, d, 0, 0, 0, 0, loc): the instant of midnight of a date.
Midnight(date, z) == (date[3] - 1) * 48 - Offset(z)

\* yesterdayStart := time.Date(now.Year(), now.Month(), now.Day()-1, 0, 0, 0, 0,
\*                             now.Location())
yesterdayStart(t, z) ==
    LET today == DateIn(t, z) IN Midnight(<<today[1], today[2], today[3] - 1>>, z)

\* yesterdayEnd := yesterdayStart.Add(24 * time.Hour)
yesterdayEnd(t, z) == yesterdayStart(t, z) + 48

\* $dateToString, format "%Y-%m-%d %H:00:00", timezone "America/Chicago":
\* the bucket <<year, month, day, hour>> stands for the formatted string.
localHour(t) ==
    LET d == DateIn(t, "America/Chicago") IN
    <<d[1], d[2], d[3], ((t + Offset("America/Chicago")) % 48) \div 2>>

\* Order of two buckets as strings of the fixed-width format.
RECURSIVE BucketLess(_, _)
BucketLess(a, b) ==
    /\ a # <<>>
    /\ \/ Head(a) < Head(b)
       \/ Head(a) = Head(b) /\ BucketLess(Tail(a), Tail(b))

MantissaBits == 53   \* significand of a float64, hidden bit included
LimbBits == 16       \* binary places per digit
IntLimbs == 2        \* digits kept before the binary point
FracLimbs == 8       \* digits kept after the binary point
Base == 2 ^ LimbBits
Limbs == IntLimbs + FracLimbs

\* The magnitude of a float64 is held exactly as Limbs digits of base Base,
\* most significant first, the binary point after digit IntLimbs; a float64
\* is [neg, mag], its sign and its magnitude. Bits are counted from the first
\* bit of digit 1. What is held exactly: zero and the magnitudes from
\* 2^(MantissaBits - LimbBits * FracLimbs) up to Base^IntLimbs; hundredths
\* are integers of the model and stay below 2^31.
Zero == [i \in 1..Limbs |-> 0]

\* The digits of the natural number h, the last one at position i.
RECURSIVE Digits(_, _, _)
Digits(h, i, acc) ==
    IF i = 0 THEN acc
    ELSE Digits(h \div Base, i - 1, [acc EXCEPT ![i] = h % Base])

FromInt(h) == Digits(h, IntLimbs, Zero)

\* The natural number that digits 1..i of x spell.
RECURSIVE ToInt(_, _)
ToInt(x, i) == IF i = 0 THEN 0 ELSE Base * ToInt(x, i - 1) + x[i]

Abs(v) == IF v < 0 THEN -v ELSE v

\* Number of binary digits of the natural number v.
RECURSIVE BitLength(_)
BitLength(v) == IF v = 0 THEN 0 ELSE 1 + BitLength(v \div 2)

\* a < b, as magnitudes.
Less(a, b) ==
    \E i \in 1..Limbs : a[i] < b[i] /\ \A j \in 1..(i - 1) : a[j] = b[j]

\* Exact a + b + carry; acc holds the low digits already added.
RECURSIVE AddLimbs(_, _, _, _)
AddLimbs(a, b, carry, acc) ==
    IF Len(acc) = Limbs THEN acc
    ELSE LET i == Limbs - Len(acc)
             t == a[i] + b[i] + carry
         IN AddLimbs(a, b, t \div Base, <<t % Base>> \o acc)

\* Exact a - b - borrow for a >= b; acc holds the low digits already done.
RECURSIVE SubLimbs(_, _, _, _)
SubLimbs(a, b, borrow, acc) ==
    IF Len(acc) = Limbs THEN acc
    ELSE LET i == Limbs - Len(acc)
             t == a[i] - b[i] - borrow
         IN IF t < 0
            THEN SubLimbs(a, b, 1, <<t + Base>> \o acc)
            ELSE SubLimbs(a, b, 0, <<t>> \o acc)

\* Exact sum of two signed values; a sum that cancels is +0.
Add(x, y) ==
    IF x.neg = y.neg
    THEN [neg |-> x.neg, mag |-> AddLimbs(x.mag, y.mag, 0, <<>>)]
    ELSE IF Less(x.mag, y.mag)
    THEN [neg |-> y.neg, mag |-> SubLimbs(y.mag, x.mag, 0, <<>>)]
    ELSE IF Less(y.mag, x.mag)
    THEN [neg |-> x.neg, mag |-> SubLimbs(x.mag, y.mag, 0, <<>>)]
    ELSE [neg |-> FALSE, mag |-> AddLimbs(Zero, Zero, 0, <<>>)]

\* The float64 magnitude nearest to the exact magnitude x (plus a nonzero
\* tail below the last digit when inexact): MantissaBits significant bits, a
\* tie to the even significand.
Nearest(x, inexact) ==
    LET nz == {i \in 1..Limbs : x[i] # 0} IN
    IF nz = {} THEN x
    ELSE LET j    == CHOOSE i \in nz : \A k \in nz : i <= k
             \* the last kept bit
             last == j * LimbBits - BitLength(x[j]) + MantissaBits
             m    == (last - 1) \div LimbBits + 1
         IN IF m > Limbs THEN x
            ELSE LET unit == 2 ^ (m * LimbBits - last)
                     low  == x[m] % unit
                     next == IF m < Limbs THEN x[m + 1] ELSE 0
                     \* twice the cut tail against one unit of the last bit
                     tail == IF unit > 1
                             THEN [twice |-> 2 * low, one |-> unit,
                                   more |-> inexact \/ \E i \in (m + 1)..Limbs : x[i] # 0]
                             ELSE [twice |-> 2 * next, one |-> Base,
                                   more |-> inexact \/ \E i \in (m + 2)..Limbs : x[i] # 0]
                     odd  == (x[m] \div unit) % 2 = 1
                     kept == [i \in 1..Limbs |->
                                 IF i < m THEN x[i] ELSE IF i = m THEN x[m] - low ELSE 0]
                     ulp  == [i \in 1..Limbs |-> IF i = m THEN unit ELSE 0]
                 IN IF \/ tail.twice > tail.one
                       \/ tail.twice = tail.one /\ (tail.more \/ odd)
                    THEN AddLimbs(kept, ulp, 0, <<>>)
                    ELSE AddLimbs(kept, Zero, 0, <<>>)

\* Quotient of x by the positive integer n, cut after Limbs digits, and
\* whether anything was cut; acc holds the high digits already produced.
RECURSIVE LongDivision(_, _, _, _)
LongDivision(x, n, rem, acc) ==
    IF Len(acc) = Limbs THEN [digits |-> acc, inexact |-> rem # 0]
    ELSE LET t == Base * rem + x[Len(acc) + 1] IN
         LongDivision(x, n, t % n, Append(acc, t \div n))

\* float64 division of the magnitude x by the count n.
Quo(x, n) ==
    LET q == LongDivision(x, n, 0, <<>>) IN Nearest(q.digits, q.inexact)

\* The float64 that stands for h hundredths: what $round hands to $avg.
Float64(h) == [neg |-> h < 0, mag |-> Quo(FromInt(Abs(h)), 100)]

\* x * 100 plus carry, exact; acc holds the low digits already produced.
RECURSIVE Times100(_, _, _)
Times100(x, carry, acc) ==
    IF Len(acc) = Limbs THEN acc
    ELSE LET t == 100 * x[Limbs - Len(acc)] + carry IN
         Times100(x, t \div Base, <<t % Base>> \o acc)

\* The hundredth nearest to the exact binary magnitude x, a tie to the even
\* one.
Hundredths(x) ==
    LET y    == Times100(x, 0, <<>>)
        q    == ToInt(y, IntLimbs)
        half == 2 * y[IntLimbs + 1]
        more == \E i \in (IntLimbs + 2)..Limbs : y[i] # 0 IN
    IF half > Base \/ (half = Base /\ (more \/ q % 2 = 1)) THEN q + 1 ELSE q

\* The float64 a document stores for a reading of x thousandths.
Stored(x) == [neg |-> x < 0, mag |-> Quo(FromInt(Abs(x)), 1000)]

\* {$round: [x, 2]} of the stored float64, as hundredths: the server rounds
\* the decimal expansion of the double itself, so 2.675 (stored just below
\* the tie) gives 2.67 and 0.005 (stored just above it) gives 0.01. (A
\* reading between -0.005 and 0 gives -0.00, which sums as 0.)
Round2(x) ==
    LET d == Stored(x)
        h == Hundredths(d.mag) IN
    IF d.neg THEN -h ELSE h

\* $addFields localHour, then $group by it, $avg keeping per group the count
\* and the exact sum of the rounded float64 values; groups come out in the
\* order their first document is met.
RECURSIVE GroupStage(_, _)
GroupStage(docs, acc) ==
    IF docs = <<>> THEN acc
    ELSE LET d == Head(docs)
             b == localHour(d.updatedAt)
             h == Float64(Round2(d.humidity))
             t == Float64(Round2(d.temperature))
             hit == {i \in 1..Len(acc) : acc[i]._id = b}
             add(g) == [g EXCEPT !.n = @ + 1,
                                 !.sumHumidity = Add(@, h),
                                 !.sumTemperature = Add(@, t)]
         IN GroupStage(Tail(docs),
                IF hit = {}
                THEN Append(acc, [_id |-> b, n |-> 1,
                                  sumHumidity |-> h, sumTemperature |-> t])
                ELSE [i \in 1..Len(acc) |-> IF i \in hit THEN add(acc[i]) ELSE acc[i]])

\* $avg: the sum as a float64, divided by the count as a float64.
Avg(sum, n) == [neg |-> sum.neg, mag |-> Quo(Nearest(sum.mag, FALSE), n)]

\* The documents $group emits: avgHumidity and avgTemperature per bucket.
AvgStage(groups) ==
    [i \in 1..Len(groups) |->
        [_id |-> groups[i]._id,
         avgHumidity |-> Avg(groups[i].sumHumidity, groups[i].n),
         avgTemperature |-> Avg(groups[i].sumTemperature, groups[i].n)]]

\* Inserts group g into the sorted sequence rows.
RECURSIVE InsertSorted(_, _)
InsertSorted(g, rows) ==
    IF rows = <<>> THEN <<g>>
    ELSE IF BucketLess(g._id, Head(rows)._id) THEN <<g>> \o rows
    ELSE <<Head(rows)>> \o InsertSorted(g, Tail(rows))

RECURSIVE SortRows(_, _)
SortRows(groups, acc) ==
    IF groups = <<>> THEN acc
    ELSE SortRows(Tail(groups), InsertSorted(Head(groups), acc))

\* {$sort: {_id: 1}}
SortStage(groups) == SortRows(groups, <<>>)

\* The pipeline: $match, $addFields, $group, $sort.
Pipeline(docs, lo, hi) ==
    SortStage(AvgStage(GroupStage(SelectDocs(docs, lo, hi), <<>>)))

\* fmt.Sprintf("%.2f", x) of the float64 x: the decimal expansion of the
\* exact binary value, cut to two places, to the nearest, a tie to the even
\* digit. [neg, digits] stands for the string: a "-" when neg, then the
\* hundredths with the point before the last two digits ("-0.00" for a
\* small negative x).
Sprintf2(x) == [neg |-> x.neg, digits |-> Hundredths(x.mag)]

header == <<"measurement_date_time", "temperature_F", "humidity_percent">>

\* record := []string{result.ID, Sprintf(AvgTemperature), Sprintf(AvgHumidity)}
csvRecord(g) ==
    <<g._id, Sprintf2(g.avgTemperature), Sprintf2(g.avgHumidity)>>

\* fmt.Printf("Hour: %s, Avg Humidity: %.2f, Avg Temperature: %.2f\n", ...)
printLine(g) ==
    <<"Hour", g._id, "Avg Humidity", Sprintf2(g.avgHumidity),
      "Avg Temperature", Sprintf2(g.avgTemperature)>>

\* csvFileName := fmt.Sprintf("measurements_%s.csv", now.Format("2006-01-02"))
csvFileName(t, z) == <<"measurements", DateIn(t, z), "csv">>

\* cursor, err := coll.Aggregate(ctx, pipeline); if err != nil { log.Fatal(err) }
Aggregate ==
    /\ pc = "query"
    /\ prog \in AggProgs
    /\ \/ /\ expired
          /\ Fatal(DeadlineExceeded)
          /\ UNCHANGED <<cursor, faults>>
       \/ /\ ~expired
          /\ Fatal(<<"aggregate error">>)
          /\ faults' = faults \cup {<<"aggregate", 0>>}
          /\ UNCHANGED cursor
       \/ /\ ~expired
          /\ cursor' = OpenCursor(Pipeline(source, yesterdayStart(now, zone),
                                           yesterdayEnd(now, zone)), BatchSize)
          /\ Goto(IF prog = "AggCSV" THEN "create" ELSE "next")
          /\ UNCHANGED faults
    /\ UNCHANGED <<prog, expired, clients, source, dest, records, writes, destPrev>>
    /\ UNCHANGED <<confVars, aggVars, runVars>>

\* file, err := os.Create(csvFileName); if err != nil { log.Fatalf(...) }
\* writer := csv.NewWriter(file)
CreateFile ==
    /\ pc = "create"
    /\ \/ /\ Fatal(<<"Failed to create CSV file">>)
          /\ faults' = faults \cup {<<"create", 0>>}
          /\ UNCHANGED file
       \/ /\ file' = <<[name |-> csvFileName(now, zone), rows |-> <<>>]>>
          /\ Goto("header")
          /\ UNCHANGED faults
    /\ UNCHANGED <<prog, expired, clients, now, zone, csvBuf, stdout>>
    /\ UNCHANGED <<confVars, dbVars, runVars>>

\* writer.Write(header): the row goes to the writer's buffer.
WriteHeader ==
    /\ pc = "header"
    /\ csvBuf' = Append(csvBuf, header)
    /\ Goto("next")
    /\ UNCHANGED <<prog, expired, clients, faults, now, zone, file, stdout>>
    /\ UNCHANGED <<confVars, dbVars, runVars>>

\* One evaluation of `for cursor.Next(ctx) { Decode; Write or Printf }`.
AggLoop ==
    /\ pc = "next"
    /\ prog \in AggProgs
    /\ LET n    == Len(cursor.docs)
           g    == cursor.docs[cursor.pos + 1]
           emit == /\ IF prog = "AggCSV"
                      THEN csvBuf' = Append(csvBuf, csvRecord(g)) /\ UNCHANGED stdout
                      ELSE stdout' = Append(stdout, printLine(g)) /\ UNCHANGED csvBuf
                   /\ Goto("next")
       IN
       \/ /\ cursor.pos < cursor.have
          /\ cursor' = [cursor EXCEPT !.pos = @ + 1]
          /\ emit
          /\ UNCHANGED faults
       \/ /\ cursor.pos < cursor.have
          /\ Fatal(<<"decode error">>)
          /\ faults' = faults \cup {<<"decode", 0>>}
          /\ UNCHANGED <<cursor, csvBuf, stdout>>
       \/ /\ cursor.pos = cursor.have /\ cursor.have < n
          /\ ~expired
          /\ cursor' = [cursor EXCEPT !.have = Min(@ + BatchSize, n)]
          /\ Fatal(<<"decode error">>)
          /\ faults' = faults \cup {<<"decode", 0>>}
          /\ UNCHANGED <<csvBuf, stdout>>
       \/ /\ cursor.pos = cursor.have /\ cursor.have < n
          /\ ~expired
          /\ cursor' = [cursor EXCEPT !.have = Min(@ + BatchSize, n), !.pos = @ + 1]
          /\ emit
          /\ UNCHANGED faults
       \/ /\ cursor.pos = cursor.have /\ cursor.have < n
          /\ cursor' = [cursor EXCEPT !.err = TRUE]
          /\ faults' = IF expired THEN faults ELSE faults \cup {<<"getMore", 0>>}
          /\ Goto("err")
          /\ UNCHANGED <<csvBuf, stdout>>
       \/ /\ cursor.pos = n
          /\ Goto("err")
          /\ UNCHANGED <<cursor, csvBuf, stdout, faults>>
    /\ UNCHANGED <<prog, expired, clients, source, dest, records, writes, destPrev>>
    /\ UNCHANGED <<confVars, runVars, now, zone, file>>

\* if err := cursor.Err(); err != nil { log.Fatal(err) }
\* and, in the CSV utility, fmt.Printf("Data successfully written to %s\n", ...)
CheckCursorErr ==
    /\ pc = "err"
    /\ IF cursor.err
       THEN /\ Fatal(IF <<"getMore", 0>> \in faults
                     THEN <<"cursor error">> ELSE DeadlineExceeded)
            /\ UNCHANGED stdout
       ELSE IF prog = "AggCSV"
       THEN /\ stdout' = Append(stdout, <<"Data successfully written to", file[1].name>>)
            /\ Goto("flush")
       ELSE /\ Goto("defers")
            /\ UNCHANGED stdout
    /\ UNCHANGED <<prog, expired, clients, faults, now, zone, file, csvBuf>>
    /\ UNCHANGED <<confVars, dbVars, runVars>>

\* defer writer.Flush(); defer file.Close(): the buffered rows go to the
\* file. (The buffer holds 4096 bytes, more than a day of rows, so nothing
\* reaches the file earlier.) Flush returns nothing, writer.Error() is never
\* read and the error of Close is dropped: when the write fails, only some
\* first part of the buffer is in the file (taken here in whole rows) and the
\* run goes on as if it had succeeded.
DeferredFlush ==
    /\ pc = "flush"
    /\ \/ /\ file' = <<[file[1] EXCEPT !.rows = @ \o csvBuf]>>
          /\ UNCHANGED faults
       \/ /\ \E k \in 0..(Len(csvBuf) - 1) :
                file' = <<[file[1] EXCEPT !.rows = @ \o SubSeq(csvBuf, 1, k)]>>
          /\ faults' = faults \cup {<<"flush", 0>>}
    /\ csvBuf' = <<>>
    /\ Goto("defers")
    /\ UNCHANGED <<prog, expired, clients, now, zone, stdout>>
    /\ UNCHANGED <<confVars, dbVars, runVars>>

(***************************************************************************)
(* Initial states and next-state relation of the aggregation utilities.    *)
(***************************************************************************)
\* The instant of hh:00 (half = 0) or hh:30 (half = 1) UTC on June `day`.
At(day, hh, half) == (day - 1) * 48 + hh * 2 + half

\* Run times: 2023-06-15 03:00 and 15:00 UTC (22:00 on the 14th and 10:00 on
\* the 15th in Chicago).
RunTimes == {At(15, 3, 0), At(15, 15, 0)}

\* updatedAt values of the stored readings, 14 and 15 June UTC.
AggTimes == {At(14, 2, 1), At(14, 3, 0), At(14, 3, 1), At(14, 12, 0), At(15, 2, 0)}

Readings ==
    [updatedAt : AggTimes, temperature : {-3865, 20016}, humidity : {40333}]

\* Collections of at most MaxAggDocs readings, in any storage order.
Collections == UNION {[1..n -> Readings] : n \in 0..MaxAggDocs}

InitAgg ==
    /\ InitRun
    /\ prog \in AggProgs
    /\ preEnv = NoVars
    /\ environ = preEnv
    /\ dotenv = EnvFile(Keys, "mongodb://base")
    /\ dotenvLocal = EnvFile({}, "")
    /\ source \in Collections
    /\ dest = NoVars
    /\ destPrev = dest
    /\ now \in RunTimes
    /\ zone \in Zones

NextAgg ==
    \/ LoadDotenv
    \/ OverloadDotenvLocal
    \/ GetenvURIs
    \/ Timeout
    \/ Connect
    \/ Aggregate
    \/ CreateFile
    \/ WriteHeader
    \/ AggLoop
    \/ CheckCursorErr
    \/ DeferredFlush
    \/ DeferredDisconnect

SpecAgg == InitAgg /\ [][NextAgg]_vars

(***************************************************************************)
(* Properties of the aggregation utilities (checked under SpecAgg).        *)
(***************************************************************************)
\* Positions in the stored collection of the readings the $match stage keeps.
Matching ==
    {i \in 1..Len(source) :
        /\ yesterdayStart(now, zone) <= source[i].updatedAt
        /\ source[i].updatedAt < yesterdayEnd(now, zone)}

\* Positions of the matching readings that fall in bucket b.
InBucket(b) == {i \in Matching : localHour(source[i].updatedAt) = b}

\* Sum over the positions S of the rounded field fld.
RECURSIVE SumOf(_, _)
SumOf(S, fld) ==
    IF S = {} THEN 0
    ELSE LET i == CHOOSE j \in S : TRUE IN
         Round2(source[i][fld]) + SumOf(S \ {i}, fld)

\* The number of hundredths that the printed string v spells.
Value(v) == IF v.neg THEN -v.digits ELSE v.digits

\* The printed v is a hundredth nearest to the mean sum / n (either one, at a
\* tie).
NearestHundredth(v, sum, n) == 2 * Abs(n * Value(v) - sum) <= n

\* The rows are the header, once and first, then one row per distinct hour
\* bucket of the matching readings, in strictly ascending bucket order, each
\* row holding the bucket, the average temperature and the average humidity;
\* with no matching reading they are the header alone.
CsvRows(rows) ==
    /\ Len(rows) >= 1
    /\ rows[1] = header
    /\ \A i \in 2..Len(rows) : rows[i] # header
    /\ \A i \in 2..(Len(rows) - 1) : BucketLess(rows[i][1], rows[i + 1][1])
    /\ {rows[i][1] : i \in 2..Len(rows)}
          = {localHour(source[i].updatedAt) : i \in Matching}
    /\ \A i \in 2..Len(rows) :
          LET S == InBucket(rows[i][1]) IN
          /\ NearestHundredth(rows[i][2], SumOf(S, "temperature"), Cardinality(S))
          /\ NearestHundredth(rows[i][3], SumOf(S, "humidity"), Cardinality(S))
    /\ Matching = {} => rows = <<header>>

\* C8 (as claimed): the CSV file of a run that returned normally is the header
\* row, once and first, then one row per distinct hour bucket of the matching
\* readings, in ascending bucket order, each row holding the bucket, the
\* average temperature and the average humidity; with no matching reading the
\* file is the header alone.
C8_CsvFile ==
    (prog = "AggCSV" /\ status = "ok") =>
        /\ Len(file) = 1
        /\ CsvRows(file[1].rows)

\* What does hold: the rows handed to the writer of a run that returned
\* normally are those rows, and they are in the file when the deferred Flush
\* could write them.
CsvRowsWhenFlushed ==
    (prog = "AggCSV" /\ status = "ok" /\ <<"flush", 0>> \notin faults) =>
        /\ Len(file) = 1
        /\ CsvRows(file[1].rows)

\* C10 (as claimed): whatever the run time and the zone of the process, all
\* buckets of one run's result carry one date, yesterday's date in
\* America/Chicago, and the result has at most one row per hour of that day.
C10_SingleChicagoDay ==
    pc \in {"create", "header", "next", "err", "flush", "defers"} =>
        /\ \A i \in 1..Len(cursor.docs) :
              LET b     == cursor.docs[i]._id
                  today == DateIn(now, "America/Chicago") IN
              <<b[1], b[2], b[3]>> = <<today[1], today[2], today[3] - 1>>
        /\ Len(cursor.docs) <= 24

====
